---- MODULE Spec2Model ----
(***************************************************************************)
(* Model of ble_scan.c: a scan controller (ble_task), the discovery        *)
(* callback (ble_discovered_device), one worker thread per accepted device *)
(* (ble_connect_device) and the connection completion callback             *)
(* (on_device_connect).  The BLE library is the environment: its return    *)
(* codes and the moment (if any) at which it invokes a callback are chosen *)
(* nondeterministically.                                                   *)
(***************************************************************************)
EXTENDS Integers, Sequences, FiniteSets, TLC

\* ---------------------------------------------------------------- bounds
\* Number of advertisements the scan call delivers before it returns.
MaxAds == 2

\* ------------------------------------------------------------- constants
GATTLIB_SUCCESS == 0
\* Any non-zero library status.
GATTLIB_ERROR_STATUS == 1
RetCodes == {GATTLIB_SUCCESS, GATTLIB_ERROR_STATUS}

\* "Local" as a C string (character codes, terminator implicit).
CONNECT_DEVICE_NAME == <<76, 111, 99, 97, 108>>

\* Advertised names the scan may report: "Local", "local", "Loca",
\* "Locals", "" .
AdNames ==
    { <<76, 111, 99, 97, 108>>,
      <<108, 111, 99, 97, 108>>,
      <<76, 111, 99, 97>>,
      <<76, 111, 99, 97, 108, 115>>,
      <<>> }

\* Record identities: the n-th successful calloc yields record n.
Records == 1..MaxAds

\* Owners of g_mutex: nobody, the controller, or the worker of a record.
NoOwner == -1
Ctrl == 0

\* ------------------------------------------------------------ operators
\* Character of a C string at position i (1-based); 0 is the terminator.
CharAt(s, i) == IF i <= Len(s) THEN s[i] ELSE 0

\* strcmp(3): sign of the first differing character, 0 when equal.
RECURSIVE StrCmpFrom(_, _, _)
StrCmpFrom(a, b, i) ==
    IF CharAt(a, i) # CharAt(b, i)
    THEN IF CharAt(a, i) < CharAt(b, i) THEN -1 ELSE 1
    ELSE IF CharAt(a, i) = 0 THEN 0 ELSE StrCmpFrom(a, b, i + 1)

\* Variant: strncmp(name, target, strlen(name)), a prefix comparison.
strcmp_Prefix(a, b) ==
    IF \A i \in 1..Len(a) : CharAt(a, i) = CharAt(b, i) THEN 0 ELSE 1

strcmp(a, b) == StrCmpFrom(a, b, 1)

\* The filter at the top of ble_discovered_device: TRUE when the callback
\* goes on to create a connection for the advertisement.
Accepted(named, name) ==
    IF named
    THEN strcmp(name, CONNECT_DEVICE_NAME) = 0
    ELSE FALSE

\* Variant: the record is never linked into the registry.
LIST_INSERT_HEAD_Forgotten(list, r) == list

\* LIST_INSERT_HEAD on the registry, kept as a sequence, head first.
LIST_INSERT_HEAD(list, r) == <<r>> \o list

\* LIST_REMOVE of the first element.
LIST_REMOVE_FIRST(list) == Tail(list)

\* free()/pthread_*_destroy() on a resource: free(NULL) is a no-op, a
\* second release of the same resource is recorded as "double".
Release(s) ==
    CASE s = "live" -> "freed"
      [] s = "freed" -> "double"
      [] OTHER -> s

\* Resources of a record that was never allocated.
NoResources == [mem |-> "none", addr |-> "none", mutex |-> "none", cond |-> "none"]

\* Lines 149-158: calloc succeeded; strdup may have returned NULL.
AllocatedResources(dupOk) ==
    [mem |-> "live", addr |-> IF dupOk THEN "live" ELSE "none",
     mutex |-> "live", cond |-> "live"]

\* Lines 161-165: the thread-creation failure path.
ReleaseOnCreateFailure(rs) == [rs EXCEPT !.mem = Release(@)]

\* Variant: the drain loop forgets free(connection->addr).
ReleaseOnDrain_LeakAddr(rs) ==
    [mem |-> Release(rs.mem), addr |-> rs.addr,
     mutex |-> Release(rs.mutex), cond |-> Release(rs.cond)]

\* Lines 197-200: the drain loop's releases.
ReleaseOnDrain(rs) ==
    [mem |-> Release(rs.mem), addr |-> Release(rs.addr),
     mutex |-> Release(rs.mutex), cond |-> Release(rs.cond)]

\* ------------------------------------------------------------ variables
VARIABLES
    cpc,                \* controller position in ble_task
    adapterOpened,      \* gattlib_adapter_open succeeded
    closeCount,         \* calls of gattlib_adapter_close
    scanRet,            \* result of gattlib_adapter_scan_enable
    g_mutex,            \* owner of the global mutex
    g_ble_connections,  \* the registry, head first
    connection,         \* ble_task's local `connection` (0 when unset)
    nextId,             \* records allocated so far
    adCount,            \* advertisements delivered so far
    lastAd,             \* the last advertisement and its library outcomes
    res,                \* per record: state of its four resources
    wpc,                \* per record: worker position in ble_connect_device
    connRet,            \* per record: result of gattlib_connect
    cbWill,             \* per record: the library will invoke the callback
    cbpc,               \* per record: position in on_device_connect
    cbError,            \* per record: `error` argument of the callback
    is_done,            \* per record: connection->is_done
    done_mutex,         \* per record: owner of connection->done_mutex
    disconnects,        \* per record: calls of gattlib_disconnect
    signals,            \* per record: calls of pthread_cond_signal
    joined,             \* per record: pthread_join returned
    joinOrder,          \* records in the order pthread_join returned for them
    exitCode            \* main's return value (-1 while main is running)

ctrlVars == <<cpc, adapterOpened, closeCount, scanRet, connection>>
scanVars == <<nextId, adCount, lastAd>>
workerVars == <<wpc, connRet, cbWill>>
cbVars == <<cbpc, cbError, disconnects, signals>>
mainVars == <<joinOrder, exitCode>>
vars == <<cpc, adapterOpened, closeCount, scanRet, g_mutex, g_ble_connections,
          connection, nextId, adCount, lastAd, res, wpc, connRet, cbWill,
          cbpc, cbError, is_done, done_mutex, disconnects, signals, joined,
          joinOrder, exitCode>>

\* main has not returned yet.
NotExited == -1

NoAd == [named |-> FALSE, name |-> <<>>, allocOk |-> FALSE, dupOk |-> FALSE,
         createOk |-> FALSE]

Init ==
    /\ cpc = "open"
    /\ adapterOpened = FALSE
    /\ closeCount = 0
    /\ scanRet = GATTLIB_SUCCESS
    /\ g_mutex = NoOwner
    /\ g_ble_connections = <<>>
    /\ connection = 0
    /\ nextId = 0
    /\ adCount = 0
    /\ lastAd = NoAd
    /\ res = [r \in Records |-> NoResources]
    /\ wpc = [r \in Records |-> "nothread"]
    /\ connRet = [r \in Records |-> GATTLIB_SUCCESS]
    /\ cbWill = [r \in Records |-> FALSE]
    /\ cbpc = [r \in Records |-> "idle"]
    /\ cbError = [r \in Records |-> 0]
    /\ is_done = [r \in Records |-> FALSE]
    /\ done_mutex = [r \in Records |-> "free"]
    /\ disconnects = [r \in Records |-> 0]
    /\ signals = [r \in Records |-> 0]
    /\ joined = [r \in Records |-> FALSE]
    /\ joinOrder = <<>>
    /\ exitCode = NotExited

\* ------------------------------------------------- controller: ble_task
\* Line 174-178: open the adapter; a failure returns at once.
AfterOpen(ret) == IF ret # 0 THEN "returned" ELSE "lock_g"

AdapterOpen(ret) ==
    /\ cpc = "open"
    /\ adapterOpened' = (ret = 0)
    /\ cpc' = AfterOpen(ret)
    /\ UNCHANGED <<closeCount, scanRet, connection, g_mutex, g_ble_connections,
                   res, is_done, done_mutex, joined>>
    /\ UNCHANGED <<scanVars, workerVars, cbVars>>
    /\ UNCHANGED mainVars

\* Variant: the controller starts the scan without taking g_mutex.
CtrlLock_NoLock ==
    /\ cpc = "lock_g"
    /\ cpc' = "scan"
    /\ UNCHANGED <<adapterOpened, closeCount, scanRet, connection, g_mutex,
                   g_ble_connections, res, is_done, done_mutex, joined>>
    /\ UNCHANGED <<scanVars, workerVars, cbVars, mainVars>>

\* Line 180: pthread_mutex_lock(&g_mutex).
CtrlLock ==
    /\ cpc = "lock_g"
    /\ g_mutex = NoOwner
    /\ g_mutex' = Ctrl
    /\ cpc' = "scan"
    /\ UNCHANGED <<adapterOpened, closeCount, scanRet, connection,
                   g_ble_connections, res, is_done, done_mutex, joined>>
    /\ UNCHANGED <<scanVars, workerVars, cbVars>>
    /\ UNCHANGED mainVars

\* Lines 149-166 of ble_discovered_device: the advertisement was accepted;
\* allocOk, dupOk and createOk are the results of calloc, strdup and
\* pthread_create (the later calls are made only when calloc succeeded).
CreateConnection(named, name, allocOk, dupOk, createOk) ==
    /\ lastAd' = [named |-> named, name |-> name, allocOk |-> allocOk,
                  dupOk |-> dupOk, createOk |-> createOk]
    /\ IF allocOk
       THEN /\ nextId' = nextId + 1
            /\ IF createOk
               THEN /\ res' = [res EXCEPT ![nextId + 1] = AllocatedResources(dupOk)]
                    /\ wpc' = [wpc EXCEPT ![nextId + 1] = "lock_g"]
                    /\ g_ble_connections' =
                           LIST_INSERT_HEAD(g_ble_connections, nextId + 1)
               ELSE /\ res' = [res EXCEPT ![nextId + 1] =
                                  ReleaseOnCreateFailure(AllocatedResources(dupOk))]
                    /\ UNCHANGED <<wpc, g_ble_connections>>
       ELSE UNCHANGED <<nextId, res, wpc, g_ble_connections>>

\* The outcomes of one run of lines 149-160: strdup and pthread_create are
\* reached only after a successful calloc.
AllocOutcomes ==
    { <<FALSE, FALSE, FALSE>> } \cup
    { <<TRUE, d, c>> : d \in BOOLEAN, c \in BOOLEAN }

\* Variant: the scan call returns at once and advertisements keep arriving
\* while the controller goes on.
ScanDelivering_Async ==
    cpc \in {"scan", "unlock_g", "drain", "join", "release"}

\* Line 181: gattlib_adapter_scan_enable blocks the controller for the scan
\* window and delivers the advertisements from inside the call.
ScanDelivering == cpc = "scan"

\* Lines 130-167: ble_discovered_device, invoked by the scan call once per
\* advertisement (named = FALSE stands for name == NULL).
ble_discovered_device(named, name) ==
    /\ ScanDelivering
    /\ adCount < MaxAds
    /\ adCount' = adCount + 1
    /\ IF Accepted(named, name)
       THEN \E o \in AllocOutcomes :
                CreateConnection(named, name, o[1], o[2], o[3])
       ELSE /\ lastAd' = [named |-> named, name |-> name, allocOk |-> FALSE,
                          dupOk |-> FALSE, createOk |-> FALSE]
            /\ UNCHANGED <<nextId, res, wpc, g_ble_connections>>
    /\ UNCHANGED <<ctrlVars, g_mutex, connRet, cbWill, is_done, done_mutex, joined>>
    /\ UNCHANGED cbVars
    /\ UNCHANGED mainVars

\* Variant: a scan failure returns at once instead of jumping to EXIT.
AfterScan_ReturnOnFailure(ret) == IF ret # 0 THEN "returned" ELSE "unlock_g"

\* Lines 181-185: gattlib_adapter_scan_enable returns (no advertisement is
\* being delivered any more); a failure jumps to EXIT, a success goes on to
\* scan_disable and the unlock.
AfterScan(ret) == IF ret # 0 THEN "close" ELSE "unlock_g"

ScanReturn(ret) ==
    /\ cpc = "scan"
    /\ scanRet' = ret
    /\ cpc' = AfterScan(ret)
    /\ lastAd' = NoAd
    /\ UNCHANGED <<adapterOpened, closeCount, connection, g_mutex,
                   g_ble_connections, res, is_done, done_mutex, joined>>
    /\ UNCHANGED <<nextId, adCount, workerVars, cbVars>>
    /\ UNCHANGED mainVars

\* Lines 187-190: scan_disable, "Scan completed", unlock g_mutex.
CtrlUnlock ==
    /\ cpc = "unlock_g"
    /\ g_mutex' = NoOwner
    /\ cpc' = "drain"
    /\ UNCHANGED <<adapterOpened, closeCount, scanRet, connection,
                   g_ble_connections, res, is_done, done_mutex, joined>>
    /\ UNCHANGED <<scanVars, workerVars, cbVars>>
    /\ UNCHANGED mainVars

\* Lines 193-194: the loop test and the pick of the head record.
DrainCheck ==
    /\ cpc = "drain"
    /\ IF g_ble_connections # <<>>
       THEN /\ connection' = Head(g_ble_connections)
            /\ cpc' = "join"
       ELSE /\ cpc' = "close"
            /\ UNCHANGED connection
    /\ UNCHANGED <<adapterOpened, closeCount, scanRet, g_mutex,
                   g_ble_connections, res, is_done, done_mutex, joined>>
    /\ UNCHANGED <<scanVars, workerVars, cbVars>>
    /\ UNCHANGED mainVars

\* Variant: the controller does not wait for the worker (a detach instead
\* of a join).
Join_NoWait ==
    /\ cpc = "join"
    /\ joined' = [joined EXCEPT ![connection] = TRUE]
    /\ joinOrder' = Append(joinOrder, connection)
    /\ UNCHANGED exitCode
    /\ cpc' = "release"
    /\ UNCHANGED <<adapterOpened, closeCount, scanRet, connection, g_mutex,
                   g_ble_connections, res, is_done, done_mutex>>
    /\ UNCHANGED <<scanVars, workerVars, cbVars>>

\* Line 195: pthread_join returns once the worker thread has terminated.
Join ==
    /\ cpc = "join"
    /\ wpc[connection] = "terminated"
    /\ joined' = [joined EXCEPT ![connection] = TRUE]
    /\ joinOrder' = Append(joinOrder, connection)
    /\ UNCHANGED exitCode
    /\ cpc' = "release"
    /\ UNCHANGED <<adapterOpened, closeCount, scanRet, connection, g_mutex,
                   g_ble_connections, res, is_done, done_mutex>>
    /\ UNCHANGED <<scanVars, workerVars, cbVars>>

\* Lines 196-200: unlink the head and release the record's resources.
DrainRelease ==
    /\ cpc = "release"
    /\ g_ble_connections' = LIST_REMOVE_FIRST(g_ble_connections)
    /\ res' = [res EXCEPT ![connection] = ReleaseOnDrain(@)]
    /\ cpc' = "drain"
    /\ UNCHANGED <<adapterOpened, closeCount, scanRet, connection, g_mutex,
                   is_done, done_mutex, joined>>
    /\ UNCHANGED <<scanVars, workerVars, cbVars>>
    /\ UNCHANGED mainVars

\* Lines 203-205: EXIT: gattlib_adapter_close, return.
AdapterClose ==
    /\ cpc = "close"
    /\ closeCount' = closeCount + 1
    /\ cpc' = "returned"
    /\ UNCHANGED <<adapterOpened, scanRet, connection, g_mutex,
                   g_ble_connections, res, is_done, done_mutex, joined>>
    /\ UNCHANGED <<scanVars, workerVars, cbVars>>
    /\ UNCHANGED mainVars

\* Lines 223-228: gattlib_mainloop returns its own status once ble_task has
\* returned (ble_task always returns NULL); main returns that status.
MainReturn(ret) ==
    /\ cpc = "returned"
    /\ exitCode' = ret
    /\ cpc' = "exited"
    /\ UNCHANGED <<adapterOpened, closeCount, scanRet, connection, g_mutex,
                   g_ble_connections, res, is_done, done_mutex, joined,
                   joinOrder>>
    /\ UNCHANGED <<scanVars, workerVars, cbVars>>

\* ------------------------------------------ worker: ble_connect_device
\* Line 110: pthread_mutex_lock(&g_mutex).
WLockG(r) ==
    /\ wpc[r] = "lock_g"
    /\ g_mutex = NoOwner
    /\ g_mutex' = r
    /\ wpc' = [wpc EXCEPT ![r] = "connect"]
    /\ UNCHANGED <<ctrlVars, g_ble_connections, res, connRet, cbWill,
                   is_done, done_mutex, joined>>
    /\ UNCHANGED <<scanVars, cbVars>>
    /\ UNCHANGED mainVars

\* Lines 113-116: gattlib_connect returns ret; the library will or will not
\* invoke on_device_connect for this request.  A failure is only logged.
WConnect(r, ret, will) ==
    /\ wpc[r] = "connect"
    /\ connRet' = [connRet EXCEPT ![r] = ret]
    /\ cbWill' = [cbWill EXCEPT ![r] = will]
    /\ wpc' = [wpc EXCEPT ![r] = "lock_done"]
    /\ UNCHANGED <<ctrlVars, g_mutex, g_ble_connections, res, is_done,
                   done_mutex, joined>>
    /\ UNCHANGED <<scanVars, cbVars>>
    /\ UNCHANGED mainVars

\* Line 119: pthread_mutex_lock(&connection->done_mutex).
WLockDone(r) ==
    /\ wpc[r] = "lock_done"
    /\ done_mutex[r] = "free"
    /\ done_mutex' = [done_mutex EXCEPT ![r] = "worker"]
    /\ wpc' = [wpc EXCEPT ![r] = "check"]
    /\ UNCHANGED <<ctrlVars, g_mutex, g_ble_connections, res, connRet, cbWill,
                   is_done, joined>>
    /\ UNCHANGED <<scanVars, cbVars>>
    /\ UNCHANGED mainVars

\* Variant: the worker does not wait for is_done.
MustWait_Never(done) == FALSE

\* Variant: the worker waits on done_cond before it looks at is_done.
MustWait_Always(done) == TRUE

\* Line 120: the loop condition of the wait loop.
MustWait(done) == ~done

\* Lines 120-121: test is_done; pthread_cond_wait releases done_mutex and
\* blocks, otherwise the loop is left.
WCheck(r) ==
    /\ wpc[r] = "check"
    /\ IF MustWait(is_done[r])
       THEN /\ wpc' = [wpc EXCEPT ![r] = "wait"]
            /\ done_mutex' = [done_mutex EXCEPT ![r] = "free"]
       ELSE /\ wpc' = [wpc EXCEPT ![r] = "unlock_done"]
            /\ UNCHANGED done_mutex
    /\ UNCHANGED <<ctrlVars, g_mutex, g_ble_connections, res, connRet, cbWill,
                   is_done, joined>>
    /\ UNCHANGED <<scanVars, cbVars>>
    /\ UNCHANGED mainVars

\* pthread_cond_wait may wake without a signal (POSIX spurious wakeup).
WSpuriousWake(r) ==
    /\ wpc[r] = "wait"
    /\ wpc' = [wpc EXCEPT ![r] = "wake"]
    /\ UNCHANGED <<ctrlVars, g_mutex, g_ble_connections, res, connRet, cbWill,
                   is_done, done_mutex, joined>>
    /\ UNCHANGED <<scanVars, cbVars>>
    /\ UNCHANGED mainVars

\* Variant: `if` instead of `while` around pthread_cond_wait: any wakeup
\* leaves the loop without testing is_done again.
WWake_NoRecheck(r) ==
    /\ wpc[r] = "wake"
    /\ done_mutex[r] = "free"
    /\ done_mutex' = [done_mutex EXCEPT ![r] = "worker"]
    /\ wpc' = [wpc EXCEPT ![r] = "unlock_done"]
    /\ UNCHANGED <<ctrlVars, g_mutex, g_ble_connections, res, connRet, cbWill,
                   is_done, joined>>
    /\ UNCHANGED <<scanVars, cbVars, mainVars>>

\* Line 121: pthread_cond_wait re-acquires done_mutex before it returns.
WWake(r) ==
    /\ wpc[r] = "wake"
    /\ done_mutex[r] = "free"
    /\ done_mutex' = [done_mutex EXCEPT ![r] = "worker"]
    /\ wpc' = [wpc EXCEPT ![r] = "check"]
    /\ UNCHANGED <<ctrlVars, g_mutex, g_ble_connections, res, connRet, cbWill,
                   is_done, joined>>
    /\ UNCHANGED <<scanVars, cbVars>>
    /\ UNCHANGED mainVars

\* Line 123: pthread_mutex_unlock(&connection->done_mutex).
WUnlockDone(r) ==
    /\ wpc[r] = "unlock_done"
    /\ done_mutex' = [done_mutex EXCEPT ![r] = "free"]
    /\ wpc' = [wpc EXCEPT ![r] = "unlock_g"]
    /\ UNCHANGED <<ctrlVars, g_mutex, g_ble_connections, res, connRet, cbWill,
                   is_done, joined>>
    /\ UNCHANGED <<scanVars, cbVars>>
    /\ UNCHANGED mainVars

\* Lines 125-127: unlock g_mutex and return from the thread (the local
\* `ret` goes out of scope).
WUnlockG(r) ==
    /\ wpc[r] = "unlock_g"
    /\ g_mutex' = NoOwner
    /\ wpc' = [wpc EXCEPT ![r] = "terminated"]
    /\ connRet' = [connRet EXCEPT ![r] = GATTLIB_SUCCESS]
    /\ UNCHANGED <<ctrlVars, g_ble_connections, res, cbWill,
                   is_done, done_mutex, joined>>
    /\ UNCHANGED <<scanVars, cbVars>>
    /\ UNCHANGED mainVars

\* --------------------------------- completion callback: on_device_connect
\* The library invokes the callback, once, for a connect request it is going
\* to complete, with some error argument.
CbStart(r, err) ==
    /\ cbpc[r] = "idle"
    /\ cbWill[r]
    /\ cbWill' = [cbWill EXCEPT ![r] = FALSE]
    /\ cbError' = [cbError EXCEPT ![r] = err]
    /\ cbpc' = [cbpc EXCEPT ![r] = "primary"]
    /\ UNCHANGED <<ctrlVars, g_mutex, g_ble_connections, res, is_done,
                   done_mutex, joined, disconnects, signals, wpc, connRet>>
    /\ UNCHANGED scanVars
    /\ UNCHANGED mainVars

\* Variant: a service discovery failure skips the disconnect.
AfterPrimary_SkipDisconnect(ret) == IF ret # 0 THEN "lock_done" ELSE "char"

\* Lines 62-66: after gattlib_discover_primary.
AfterPrimary(ret) == IF ret # 0 THEN "disconnect" ELSE "char"

\* Lines 62-75: discover and print the primary services.
CbPrimary(r, ret) ==
    /\ cbpc[r] = "primary"
    /\ cbpc' = [cbpc EXCEPT ![r] = AfterPrimary(ret)]
    /\ UNCHANGED <<ctrlVars, g_mutex, g_ble_connections, res, is_done,
                   done_mutex, joined, cbError, disconnects, signals>>
    /\ UNCHANGED <<scanVars, workerVars>>
    /\ UNCHANGED mainVars

\* Lines 77-81: after gattlib_discover_char; both results reach
\* disconnect_exit.
AfterChar(ret) == "disconnect"

\* Lines 77-89: discover and print the characteristics.
CbChar(r, ret) ==
    /\ cbpc[r] = "char"
    /\ cbpc' = [cbpc EXCEPT ![r] = AfterChar(ret)]
    /\ UNCHANGED <<ctrlVars, g_mutex, g_ble_connections, res, is_done,
                   done_mutex, joined, cbError, disconnects, signals>>
    /\ UNCHANGED <<scanVars, workerVars>>
    /\ UNCHANGED mainVars

\* Lines 91-95: gattlib_disconnect(conn, true); a failure is only logged.
CbDisconnect(r, ret) ==
    /\ cbpc[r] = "disconnect"
    /\ disconnects' = [disconnects EXCEPT ![r] = @ + 1]
    /\ cbpc' = [cbpc EXCEPT ![r] = "lock_done"]
    /\ UNCHANGED <<ctrlVars, g_mutex, g_ble_connections, res, is_done,
                   done_mutex, joined, cbError, signals>>
    /\ UNCHANGED <<scanVars, workerVars>>
    /\ UNCHANGED mainVars

\* Variant: the callback goes on to write is_done without taking done_mutex.
CbLockDone_NoLock(r) ==
    /\ cbpc[r] = "lock_done"
    /\ cbpc' = [cbpc EXCEPT ![r] = "set_done"]
    /\ UNCHANGED <<ctrlVars, g_mutex, g_ble_connections, res, is_done,
                   done_mutex, joined, cbError, disconnects, signals>>
    /\ UNCHANGED <<scanVars, workerVars, mainVars>>

\* Line 98: pthread_mutex_lock(&connection->done_mutex).
CbLockDone(r) ==
    /\ cbpc[r] = "lock_done"
    /\ done_mutex[r] = "free"
    /\ done_mutex' = [done_mutex EXCEPT ![r] = "callback"]
    /\ cbpc' = [cbpc EXCEPT ![r] = "set_done"]
    /\ UNCHANGED <<ctrlVars, g_mutex, g_ble_connections, res, is_done,
                   joined, cbError, disconnects, signals>>
    /\ UNCHANGED <<scanVars, workerVars>>
    /\ UNCHANGED mainVars

\* Line 99: connection->is_done = true.
CbSetDone(r) ==
    /\ cbpc[r] = "set_done"
    /\ is_done' = [is_done EXCEPT ![r] = TRUE]
    /\ cbpc' = [cbpc EXCEPT ![r] = "signal"]
    /\ UNCHANGED <<ctrlVars, g_mutex, g_ble_connections, res, done_mutex,
                   joined, cbError, disconnects, signals>>
    /\ UNCHANGED <<scanVars, workerVars>>
    /\ UNCHANGED mainVars

\* Variant: is_done is set but the waiting worker is not woken.
CbSignal_NoWake(r) ==
    /\ cbpc[r] = "signal"
    /\ signals' = [signals EXCEPT ![r] = @ + 1]
    /\ cbpc' = [cbpc EXCEPT ![r] = "unlock_done"]
    /\ UNCHANGED <<ctrlVars, g_mutex, g_ble_connections, res, is_done,
                   done_mutex, joined, cbError, disconnects>>
    /\ UNCHANGED <<scanVars, workerVars, mainVars>>

\* Line 100: pthread_cond_signal wakes the worker if it is waiting.
CbSignal(r) ==
    /\ cbpc[r] = "signal"
    /\ signals' = [signals EXCEPT ![r] = @ + 1]
    /\ wpc' = [wpc EXCEPT ![r] = IF @ = "wait" THEN "wake" ELSE @]
    /\ cbpc' = [cbpc EXCEPT ![r] = "unlock_done"]
    /\ UNCHANGED <<ctrlVars, g_mutex, g_ble_connections, res, is_done,
                   done_mutex, joined, cbError, disconnects, connRet, cbWill>>
    /\ UNCHANGED scanVars
    /\ UNCHANGED mainVars

\* Line 101: pthread_mutex_unlock(&connection->done_mutex); return (the
\* argument `error` goes out of scope).
CbUnlockDone(r) ==
    /\ cbpc[r] = "unlock_done"
    /\ done_mutex' = [done_mutex EXCEPT ![r] = "free"]
    /\ cbpc' = [cbpc EXCEPT ![r] = "returned"]
    /\ cbError' = [cbError EXCEPT ![r] = 0]
    /\ UNCHANGED <<ctrlVars, g_mutex, g_ble_connections, res, is_done,
                   joined, disconnects, signals>>
    /\ UNCHANGED <<scanVars, workerVars>>
    /\ UNCHANGED mainVars

\* -------------------------------------------------------- specification
CtrlStep ==
    \/ \E ret \in RetCodes : AdapterOpen(ret)
    \/ CtrlLock
    \/ \E ret \in RetCodes : ScanReturn(ret)
    \/ CtrlUnlock
    \/ DrainCheck
    \/ Join
    \/ DrainRelease
    \/ AdapterClose
    \/ \E ret \in RetCodes : MainReturn(ret)

DiscoverStep ==
    \/ \E name \in AdNames : ble_discovered_device(TRUE, name)
    \/ ble_discovered_device(FALSE, <<>>)

WorkerStep(r) ==
    \/ WLockG(r)
    \/ \E ret \in RetCodes, will \in BOOLEAN : WConnect(r, ret, will)
    \/ WLockDone(r)
    \/ WCheck(r)
    \/ WWake(r)
    \/ WUnlockDone(r)
    \/ WUnlockG(r)

CallbackStep(r) ==
    \/ \E err \in RetCodes : CbStart(r, err)
    \/ \E ret \in RetCodes : CbPrimary(r, ret)
    \/ \E ret \in RetCodes : CbChar(r, ret)
    \/ \E ret \in RetCodes : CbDisconnect(r, ret)
    \/ CbLockDone(r)
    \/ CbSetDone(r)
    \/ CbSignal(r)
    \/ CbUnlockDone(r)

Next ==
    \/ CtrlStep
    \/ DiscoverStep
    \/ \E r \in Records : WorkerStep(r)
    \/ \E r \in Records : WSpuriousWake(r)
    \/ \E r \in Records : CallbackStep(r)

Spec == Init /\ [][Next]_vars

\* Threads are scheduled fairly and every library call returns; the scan is
\* time-bounded.  Spurious wakeups and further advertisements are not
\* guaranteed.  A thread blocked on done_mutex gets it when it is released
\* again and again (the worker re-takes it after every wakeup).
FairSpec ==
    /\ Spec
    /\ WF_vars(CtrlStep)
    /\ \A r \in Records : WF_vars(WorkerStep(r))
    /\ \A r \in Records : WF_vars(CallbackStep(r))
    /\ \A r \in Records : SF_vars(CbLockDone(r))

TypeOK ==
    /\ cpc \in {"open", "lock_g", "scan", "unlock_g", "drain", "join",
                "release", "close", "returned", "exited"}
    /\ exitCode \in {NotExited} \cup RetCodes
    /\ g_mutex \in {NoOwner, Ctrl} \cup Records
    /\ nextId \in 0..MaxAds
    /\ adCount \in 0..MaxAds
    /\ \A r \in Records :
          /\ wpc[r] \in {"nothread", "lock_g", "connect", "lock_done", "check",
                         "wait", "wake", "unlock_done", "unlock_g", "terminated"}
          /\ cbpc[r] \in {"idle", "primary", "char", "disconnect", "lock_done",
                          "set_done", "signal", "unlock_done", "returned"}
          /\ done_mutex[r] \in {"free", "worker", "callback"}

\* ================================================================ claims
Spawned(r) == wpc[r] # "nothread"

\* A device is inside its session from the moment its worker holds g_mutex
\* and issues the connect until the worker leaves the critical section, and
\* while its completion callback discovers or disconnects.
InSession(r) ==
    \/ wpc[r] \in {"connect", "lock_done", "check", "wait", "wake",
                   "unlock_done", "unlock_g"}
    \/ cbpc[r] \in {"primary", "char", "disconnect"}

\* C1: the sessions of two different devices never overlap: at most one
\* device at a time is between its connect request and the end of its
\* completion callback's discovery and disconnect.
C1_SessionsExclusive ==
    \A r1, r2 \in Records : (InSession(r1) /\ InSession(r2)) => r1 = r2

\* One device's callback is discovering characteristics while another
\* device's worker is blocked at g_mutex.
C1_Witness ==
    \E r1, r2 \in Records :
        /\ r1 # r2
        /\ cbpc[r1] = "char"
        /\ wpc[r2] = "lock_g"
        /\ g_mutex = r1

\* C2: for every worker whose completion callback executes, the
\* controller's join for that worker eventually completes, whatever the
\* other workers do.
C2_JoinCompletes ==
    \A r \in Records : (cbpc[r] # "idle") ~> joined[r]

\* The controller has left the drain loop through its exit test.
DrainFinished ==
    /\ adapterOpened
    /\ scanRet = GATTLIB_SUCCESS
    /\ cpc \in {"close", "returned", "exited"}

\* C3: after the drain loop finishes the registry is empty and every
\* registered record has had its address string, done mutex, done condition
\* and memory released exactly once (nothing live, nothing released twice).
C3_DrainReleasesOnce ==
    DrainFinished =>
        /\ g_ble_connections = <<>>
        /\ \A r \in Records :
              Spawned(r) =>
                  /\ res[r].mem = "freed"
                  /\ res[r].mutex = "freed"
                  /\ res[r].cond = "freed"
                  /\ res[r].addr \in {"freed", "none"}

\* The drain loop finished after releasing two registered records.
C3_Witness ==
    /\ DrainFinished
    /\ Spawned(1) /\ Spawned(2)
    /\ res[1].addr = "freed" /\ res[2].addr = "freed"

\* C4: the controller never closes the adapter or returns while a spawned
\* worker is still running or unjoined.
C4_NoReturnBeforeWorkers ==
    (cpc \in {"returned", "exited"} \/ closeCount > 0) =>
        \A r \in Records : Spawned(r) => (wpc[r] = "terminated" /\ joined[r])

\* C5: once the scan call has returned and the controller has moved on to
\* the drain loop or to the adapter close, it no longer holds g_mutex.
C5_LockReleasedAfterScan ==
    cpc \in {"drain", "join", "release", "close", "returned", "exited"}
        => g_mutex # Ctrl

\* C6: when the adapter was opened, ble_task returns only after exactly one
\* gattlib_adapter_close, on the scan-success and on the scan-failure path;
\* the adapter is never closed twice.
C6_AdapterClosedOnce ==
    /\ closeCount <= 1
    /\ (cpc \in {"returned", "exited"} /\ adapterOpened) => closeCount = 1

\* ble_task has returned after a failed scan that had spawned a worker.
C6_Witness ==
    /\ cpc = "returned"
    /\ adapterOpened
    /\ scanRet # GATTLIB_SUCCESS
    /\ Spawned(1)

\* The step is one invocation of the discovery callback.
DiscoveryStep == adCount' = adCount + 1

\* The invocation created exactly one record, spawned exactly one worker for
\* it and left that record at the head of the registry.
OneRecordCreated ==
    /\ nextId' = nextId + 1
    /\ wpc' = [wpc EXCEPT ![nextId + 1] = "lock_g"]
    /\ wpc[nextId + 1] = "nothread"
    /\ res'[nextId + 1].mem = "live"
    /\ \A r \in Records : r # nextId + 1 => res'[r] = res[r]
    /\ g_ble_connections' = <<nextId + 1>> \o g_ble_connections

\* C7 (as stated): every advertisement whose name is the target name makes
\* the discovery callback create one record, spawn one worker and register
\* the record before it returns.
C7_EveryMatchRegistered ==
    [][(DiscoveryStep /\ lastAd'.named /\ lastAd'.name = CONNECT_DEVICE_NAME)
          => OneRecordCreated]_vars

\* C7 (amended): a matching advertisement for which calloc and
\* pthread_create succeed creates exactly one record, spawns exactly one
\* worker and has the record at the head of the registry when the callback
\* returns; when either call fails no worker is spawned and the registry is
\* unchanged.
C7_MatchRegisteredUnlessFailure ==
    [][(DiscoveryStep /\ lastAd'.named /\ lastAd'.name = CONNECT_DEVICE_NAME)
          => IF lastAd'.allocOk /\ lastAd'.createOk
             THEN OneRecordCreated
             ELSE wpc' = wpc /\ g_ble_connections' = g_ble_connections]_vars

\* The second matching advertisement has just been registered ahead of the
\* first.
C7_Witness ==
    /\ cpc = "scan"
    /\ lastAd.named /\ lastAd.name = CONNECT_DEVICE_NAME
    /\ lastAd.allocOk /\ lastAd.createOk
    /\ g_ble_connections = <<2, 1>>
    /\ wpc[2] = "lock_g"

\* C8: an advertisement without a name, or with a name different from the
\* target name, creates no record, spawns no thread and leaves the registry
\* unchanged.
C8_UnacceptedIgnored ==
    [][(DiscoveryStep /\ (~lastAd'.named \/ lastAd'.name # CONNECT_DEVICE_NAME))
          => /\ nextId' = nextId
             /\ res' = res
             /\ wpc' = wpc
             /\ g_ble_connections' = g_ble_connections]_vars

\* "Loca", a proper prefix of the target name, was delivered after one
\* record had been registered.
C8_Witness ==
    /\ cpc = "scan"
    /\ adCount = 2
    /\ lastAd.named /\ lastAd.name = <<76, 111, 99, 97>>
    /\ g_ble_connections = <<1>>

\* C9: a record abandoned because allocation or thread creation failed
\* holds no live resource once the discovery callback has returned.
C9_AbandonedNothingLive ==
    \A r \in Records :
        (r <= nextId /\ ~Spawned(r)) =>
            /\ res[r].mem # "live"
            /\ res[r].addr # "live"
            /\ res[r].mutex # "live"
            /\ res[r].cond # "live"

\* The callback has disconnected exactly once before it touches is_done.
DisconnectBeforeDone ==
    \A r \in Records :
        /\ disconnects[r] <= 1
        /\ (cbpc[r] \in {"lock_done", "set_done", "signal", "unlock_done",
                         "returned"}) => disconnects[r] = 1
        /\ (is_done[r] \/ signals[r] > 0) => disconnects[r] = 1
        /\ cbpc[r] = "returned" => (is_done[r] /\ signals[r] = 1)

\* C10: every execution of the completion callback disconnects exactly
\* once, marks the record done and signals only afterwards, and runs to its
\* end with the record done.
C10_CallbackDisconnectsThenDone ==
    /\ []DisconnectBeforeDone
    /\ \A r \in Records :
          (cbpc[r] # "idle") ~> (cbpc[r] = "returned" /\ is_done[r])

\* A callback has returned with its one disconnect made while a second
\* device was still waiting for its turn.
C10_Witness ==
    \E r1, r2 \in Records :
        /\ cbpc[r1] = "returned"
        /\ disconnects[r1] = 1
        /\ is_done[r1]
        /\ wpc[r2] = "lock_g"

\* The step is made by the completion callback of r at line 99.
SetDoneStep(r) == cbpc[r] = "set_done" /\ cbpc'[r] = "signal"

\* The step is made by the completion callback of r at line 100.
SignalStep(r) == cbpc[r] = "signal" /\ cbpc'[r] = "unlock_done"

\* C11: is_done of a record is false when the record is created, is
\* written only by that record's completion callback while it holds the
\* record's done_mutex, goes from false to true at most once and never
\* back, and the condition is signalled only by that callback, once per
\* execution.
C11_OnlyCallbackWritesDone ==
    [][\A r \in Records :
          /\ (~Spawned(r) /\ Spawned(r)') => ~is_done'[r]
          /\ is_done[r] => is_done'[r]
          /\ (is_done'[r] # is_done[r]) =>
                 /\ SetDoneStep(r)
                 /\ done_mutex[r] = "callback"
                 /\ is_done'[r]
          /\ (signals'[r] # signals[r]) =>
                 /\ SignalStep(r)
                 /\ signals[r] = 0 /\ signals'[r] = 1
          /\ (cbpc'[r] = "returned") => (signals'[r] = 1 /\ is_done'[r])
      ]_vars

\* The callback has set is_done under the lock and has not signalled yet,
\* while the worker sleeps in pthread_cond_wait.
C11_Witness ==
    \E r \in Records :
        /\ is_done[r]
        /\ cbpc[r] = "signal"
        /\ done_mutex[r] = "callback"
        /\ signals[r] = 0
        /\ wpc[r] = "wait"

\* C12: a completion callback invoked with a non-zero error performs no
\* service discovery and no characteristic discovery.
C12_NoDiscoveryOnError ==
    [][\A r \in Records :
          cbError[r] # 0 =>
              /\ ~(cbpc[r] = "primary" /\ cbpc'[r] # "primary")
              /\ ~(cbpc[r] = "char" /\ cbpc'[r] # "char")
      ]_vars

\* The connect request of r was made and the library will never invoke the
\* completion callback for it.
NoCallback(r) ==
    /\ wpc[r] \in {"lock_done", "check", "wait", "wake"}
    /\ cbpc[r] = "idle"
    /\ ~cbWill[r]

\* C13: a worker whose connect is never followed by the completion callback
\* stays in its wait loop for ever with g_mutex held; the workers still
\* blocked at g_mutex stay blocked and the drain loop does not finish.
C13_LatentHang ==
    [][\A r \in Records :
          NoCallback(r) =>
              /\ NoCallback(r)'
              /\ g_mutex = r /\ g_mutex' = r
              /\ ~is_done'[r]
              /\ \A q \in Records : wpc[q] = "lock_g" => wpc'[q] = "lock_g"
              /\ ~DrainFinished /\ ~DrainFinished'
              /\ ~joined'[r]
      ]_vars

\* A failed connect never completed: its worker sleeps on done_cond holding
\* g_mutex, another worker is blocked at g_mutex, the controller is in
\* pthread_join.
C13_Witness ==
    \E r, q \in Records :
        /\ NoCallback(r)
        /\ connRet[r] # GATTLIB_SUCCESS
        /\ wpc[r] = "wait"
        /\ wpc[q] = "lock_g"
        /\ cpc = "join"

\* C14: when gattlib_adapter_open fails the process exits with a non-zero
\* status, no advertisement was delivered, no record or worker was created
\* and the controller never took g_mutex.
C14_OpenFailureExit ==
    (cpc = "exited" /\ ~adapterOpened) =>
        /\ exitCode # 0
        /\ adCount = 0
        /\ nextId = 0
        /\ \A r \in Records : ~Spawned(r)
        /\ g_mutex = NoOwner

\* C15: pthread_join returns for the records in the reverse of the order in
\* which they were registered, and with two registered devices both have
\* been joined, the second one first, when the controller returns.
C15_ReverseOrderJoin ==
    /\ \A i, j \in 1..Len(joinOrder) : i < j => joinOrder[i] > joinOrder[j]
    /\ (cpc \in {"returned", "exited"} /\ Spawned(1) /\ Spawned(2))
           => joinOrder = <<2, 1>>

\* The registry as a set of records.
Registered == {g_ble_connections[i] : i \in 1..Len(g_ble_connections)}

\* C16: the registry changes only by an insertion made by the discovery
\* callback while the controller is blocked in the scan call, or by the
\* drain loop's removal of the head; no worker or completion callback step
\* changes it, and nothing is inserted once the scan call has returned.
C16_RegistryControllerOnly ==
    [][(g_ble_connections' # g_ble_connections) =>
          \/ /\ cpc = "scan" /\ cpc' = "scan"
             /\ DiscoveryStep
             /\ g_mutex = Ctrl
             /\ Len(g_ble_connections') = Len(g_ble_connections) + 1
             /\ \A r \in Records : wpc[r] \in {"nothread", "lock_g"}
             /\ cbpc' = cbpc
          \/ /\ cpc = "release" /\ cpc' = "drain"
             /\ g_ble_connections' = Tail(g_ble_connections)
             /\ wpc' = wpc
             /\ cbpc' = cbpc
      ]_vars

\* The drain loop has removed one record while the worker of the other is
\* in its session.
C16_Witness ==
    /\ cpc = "drain"
    /\ g_ble_connections = <<1>>
    /\ joined[2]
    /\ wpc[1] = "wait"

\* Some resource of the record has been released.
Released(r) ==
    \/ res[r].mem \in {"freed", "double"}
    \/ res[r].addr \in {"freed", "double"}
    \/ res[r].mutex \in {"freed", "double"}
    \/ res[r].cond \in {"freed", "double"}

\* C17: a registered record's resources are released only after its worker
\* has terminated and been joined and the record has left the registry; no
\* running worker and no executing completion callback belongs to a
\* released record.
C17_ReleasedAfterJoin ==
    \A r \in Records :
        (Spawned(r) /\ Released(r)) =>
            /\ wpc[r] = "terminated"
            /\ joined[r]
            /\ r \notin Registered
            /\ cbpc[r] = "returned"

\* Record 2 has been released while the completion callback of record 1 is
\* still discovering.
C17_Witness ==
    /\ Spawned(2) /\ Released(2)
    /\ res[2].mem = "freed"
    /\ cbpc[1] = "char"

\* C18: while the controller is in the scan call every spawned worker is
\* blocked at g_mutex; a worker gets past it, and a connect request is made,
\* only after the scan call returned successfully and the controller
\* released g_mutex.
C18_NoConnectDuringScan ==
    /\ cpc \in {"open", "lock_g", "scan", "unlock_g"} =>
           \A r \in Records :
               wpc[r] \in {"nothread", "lock_g"} /\ cbpc[r] = "idle"
    /\ \A r \in Records :
           wpc[r] \notin {"nothread", "lock_g"} =>
               /\ cpc \in {"drain", "join", "release", "close", "returned",
                           "exited"}
               /\ scanRet = GATTLIB_SUCCESS

\* Two workers were spawned during the scan and both wait for g_mutex, which
\* the controller holds.
C18_Witness ==
    /\ cpc = "scan"
    /\ g_mutex = Ctrl
    /\ wpc[1] = "lock_g" /\ wpc[2] = "lock_g"

\* A worker sleeping in pthread_cond_wait with is_done already set has its
\* signal still to come.
NoSleepAfterDone ==
    \A r \in Records :
        (wpc[r] = "wait" /\ is_done[r]) => cbpc[r] = "signal"

\* C19: no wakeup is lost: the worker never stays in pthread_cond_wait once
\* is_done is set and signalled, and whenever is_done is set the worker goes
\* on to release g_mutex and terminate, also when the callback finished
\* before the worker took done_mutex.
C19_NoLostWakeup ==
    /\ []NoSleepAfterDone
    /\ [][\A r \in Records :
              (wpc[r] # "wait" /\ wpc'[r] = "wait") => ~is_done[r]]_vars
    /\ \A r \in Records : is_done[r] ~> (wpc[r] = "terminated")

\* The callback has set is_done, signalled and returned before the worker
\* took done_mutex.
C19_Witness ==
    \E r \in Records :
        /\ cbpc[r] = "returned"
        /\ is_done[r]
        /\ signals[r] = 1
        /\ wpc[r] = "lock_done"

\* The run is over: every worker has terminated and been joined, the
\* registry is empty, the adapter is closed and ble_task has returned.
Terminated ==
    /\ cpc \in {"returned", "exited"}
    /\ closeCount = 1
    /\ g_ble_connections = <<>>
    /\ \A r \in Records : Spawned(r) => (wpc[r] = "terminated" /\ joined[r])

\* A premise of termination has failed: the adapter did not open, the scan
\* call failed, or some connect request will never be completed.
Excused ==
    \/ (cpc \in {"returned", "exited"} /\ ~adapterOpened)
    \/ scanRet # GATTLIB_SUCCESS
    \/ \E r \in Records : NoCallback(r)

\* C20: if the adapter opens, the scan call returns success and every
\* connect request is completed by its callback, then every worker
\* terminates, the drain loop empties the registry, the adapter is closed
\* and ble_task returns.
C20_Termination == <>(Terminated \/ Excused)

\* Two devices were handled and the controller has returned after closing
\* the adapter.
C20_Witness ==
    /\ Terminated
    /\ adapterOpened
    /\ scanRet = GATTLIB_SUCCESS
    /\ joinOrder = <<2, 1>>
    /\ cbpc[1] = "returned" /\ cbpc[2] = "returned"

====
